---- MODULE Spec2Model ----
(***************************************************************************)
(* Model of finlaymaltby/poker: the card domain (card.rs), the bit-packed  *)
(* hand key and the score-table builder (hand.rs) and the equity           *)
(* evaluators (main.rs).                                                   *)
(*                                                                         *)
(* A hand key is a u64.  It is kept as two limbs, [hi, lo], standing for   *)
(* hi * 2^50 + lo: lo holds bits 0..49 (the 3-bit rank counters), hi holds *)
(* bits 50..63 (the flush markers and the flush bit).                      *)
(***************************************************************************)
EXTENDS Integers, Sequences, FiniteSets, TLC

\* Number of variants of Rank in the modelled deck (13 in card.rs).  The
\* variants kept are Two, Three, ... in order, with Ace always the highest.
NumRanks == 6

(***************************************************************************)
(* card.rs                                                                 *)
(***************************************************************************)
RankNames ==
    <<"Two", "Three", "Four", "Five", "Six", "Seven", "Eight", "Nine",
      "Ten", "Jack", "Queen", "King">>

ALL_RANKS == SubSeq(RankNames, 1, NumRanks - 1) \o <<"Ace">>

ALL_SUITS == <<"Hearts", "Diamonds", "Clubs", "Spades">>

RankValues == {ALL_RANKS[k] : k \in 1..Len(ALL_RANKS)}
SuitValues == {ALL_SUITS[k] : k \in 1..Len(ALL_SUITS)}

Ok(v) == [tag |-> "Ok", val |-> v]
Err(m) == [tag |-> "Err", msg |-> m]
Panic(m) == [tag |-> "Panic", msg |-> m]

RankDiscriminant == [r \in RankValues |-> CHOOSE k \in 0..(Len(ALL_RANKS) - 1) : ALL_RANKS[k + 1] = r]
SuitDiscriminant == [s \in SuitValues |-> CHOOSE k \in 0..(Len(ALL_SUITS) - 1) : ALL_SUITS[k + 1] = s]

\* impl From<Rank> for usize
Rank_into_usize(rank) == RankDiscriminant[rank]

\* impl TryFrom<usize> for Rank
Rank_try_from(value) ==
    IF value \in 0..(Len(ALL_RANKS) - 1)
    THEN Ok(ALL_RANKS[value + 1])
    ELSE Err("Invalid rank value")

\* impl From<Suit> for usize
Suit_into_usize(suit) == SuitDiscriminant[suit]

\* impl TryFrom<usize> for Suit
Suit_try_from(value) ==
    CASE value = 0 -> Ok("Hearts")
      [] value = 1 -> Ok("Diamonds")
      [] value = 2 -> Ok("Clubs")
      [] value = 3 -> Ok("Spades")
      [] OTHER -> Panic("Invalid suit value")

Card_new(rank, suit) == [rank |-> rank, suit |-> suit]

\* Card::DECK, ordered by rank then suit
DECK ==
    [k \in 1..(Len(ALL_RANKS) * Len(ALL_SUITS)) |->
        Card_new(ALL_RANKS[((k - 1) \div Len(ALL_SUITS)) + 1],
                 ALL_SUITS[((k - 1) % Len(ALL_SUITS)) + 1])]

get_deck == DECK

DeckSize == Len(DECK)

\* impl From<Card> for usize
Card_into_usize(card) == (Rank_into_usize(card.rank) * 4) + Suit_into_usize(card.suit)

\* impl TryFrom<usize> for Card
Card_try_from(value) ==
    IF value > DeckSize - 1
    THEN Err("Invalid card value")
    ELSE LET rank == Rank_try_from(value \div 4)
             suit == Suit_try_from(value % 4)
         IN IF rank.tag # "Ok" THEN rank
            ELSE IF suit.tag # "Ok" THEN suit
            ELSE Ok([rank |-> rank.val, suit |-> suit.val])

(***************************************************************************)
(* u64 arithmetic on the two limbs                                         *)
(***************************************************************************)

RECURSIVE BitOr(_, _)
BitOr(a, b) ==
    IF a = 0 THEN b
    ELSE IF b = 0 THEN a
    ELSE (IF a % 2 = 1 \/ b % 2 = 1 THEN 1 ELSE 0) + 2 * BitOr(a \div 2, b \div 2)

RECURSIVE BitAnd(_, _)
BitAnd(a, b) ==
    IF a = 0 \/ b = 0 THEN 0
    ELSE (IF a % 2 = 1 /\ b % 2 = 1 THEN 1 ELSE 0) + 2 * BitAnd(a \div 2, b \div 2)

\* Hand::SUIT_OFFSET, and the position of the flush bit (1 << 63)
SUIT_OFFSET == 50
FLUSH_BIT == 63

\* the low limb ends where the flush markers begin
LimbBits == SUIT_OFFSET

\* v << s for a v that fits the low limb before the shift
Shl(v, s) ==
    IF s >= LimbBits
    THEN [hi |-> v * (2 ^ (s - LimbBits)), lo |-> 0]
    ELSE [hi |-> 0, lo |-> v * (2 ^ s)]

\* impl BitOr for Hand
bitor(self, other) ==
    [hi |-> BitOr(self.hi, other.hi), lo |-> BitOr(self.lo, other.lo)]

BitAndHand(a, b) ==
    [hi |-> BitAnd(a.hi, b.hi), lo |-> BitAnd(a.lo, b.lo)]

\* a + b and a - b on u64 where b has bits in the low limb only
AddLow(a, b) == [hi |-> a.hi, lo |-> a.lo + b.lo]
SubLow(a, b) == [hi |-> a.hi, lo |-> a.lo - b.lo]

(***************************************************************************)
(* hand.rs: Hand                                                           *)
(***************************************************************************)
EMPTY == [hi |-> 0, lo |-> 0]

\* usize::from(Rank::Five), usize::from(Rank::Ace)
Five == Rank_into_usize("Five")
Ace == Rank_into_usize("Ace")

\* val += 1 << (usize::from(card.rank) * 3), for every card: the low limb
RECURSIVE CountRanks(_, _, _)
CountRanks(val, cards, k) ==
    IF k > Len(cards) THEN val
    ELSE CountRanks(val + 2 ^ (Rank_into_usize(cards[k].rank) * 3), cards, k + 1)

suit_counts(cards) ==
    [s \in 0..3 |-> Cardinality({k \in 1..Len(cards) : Suit_into_usize(cards[k].suit) = s})]

\* Hand::new with the suit pass left out: rank counts only
Hand_new_rank_counts_only(cards) == [hi |-> 0, lo |-> CountRanks(0, cards, 1)]

RECURSIVE MarkFlush(_, _, _, _)
MarkFlush(val, cards, flush_suit, k) ==
    IF k > Len(cards) THEN val
    ELSE MarkFlush(
            IF cards[k].suit = Suit_try_from(flush_suit).val
            THEN bitor(val, Shl(1, Rank_into_usize(cards[k].rank) + SUIT_OFFSET))
            ELSE val,
            cards, flush_suit, k + 1)

Hand_new(cards) ==
    LET val == [hi |-> 0, lo |-> CountRanks(0, cards, 1)]
        counts == suit_counts(cards)
        found == {s \in 0..3 : counts[s] >= 5}
    IN IF found = {} THEN val
       ELSE LET flush_suit == CHOOSE s \in found : \A t \in found : s <= t
            IN MarkFlush(bitor(val, Shl(1, FLUSH_BIT)), cards, flush_suit, 1)

\* itertools combinations(k) over n items: the index tuple (0-based values)
FirstCombo(k) == [j \in 1..k |-> j - 1]

HasNextCombo(idx, n) ==
    \E p \in 1..Len(idx) : idx[p] < n - Len(idx) + p - 1

NextCombo(idx, n) ==
    LET k == Len(idx)
        p == CHOOSE q \in 1..k :
                /\ idx[q] < n - k + q - 1
                /\ \A j \in (q + 1)..k : idx[j] = n - k + j - 1
    IN [j \in 1..k |-> IF j < p THEN idx[j] ELSE idx[p] + 1 + (j - p)]

\* the deck walked without .rev()
DeckForwards == [k \in 1..DeckSize |-> DECK[k]]

\* Card::get_deck().into_iter().rev()
RevDeck == [k \in 1..DeckSize |-> DECK[DeckSize + 1 - k]]

\* the element of get_hand_combos(n) at index tuple idx
get_hand_combos(idx) == Hand_new([j \in 1..Len(idx) |-> RevDeck[idx[j] + 1]])

\* from_straight_flush without `hand.0 |= 1 << 62` for the wheel
from_straight_flush_no_ace_marker(high_rank) ==
    LET flush == bitor(EMPTY, Shl(1, FLUSH_BIT))
    IN IF high_rank = ALL_RANKS[Five + 1]
       THEN bitor(bitor(bitor(flush, Shl(15, SUIT_OFFSET)), Shl(585, 0)),
                  Shl(1, Ace * 3))
       ELSE LET low_rank_offset == Rank_into_usize(high_rank) - 4
            IN bitor(bitor(flush, Shl(31, low_rank_offset + SUIT_OFFSET)),
                     Shl(4681, low_rank_offset * 3))

from_straight_flush(high_rank) ==
    LET flush == bitor(EMPTY, Shl(1, FLUSH_BIT))
    IN IF high_rank = ALL_RANKS[Five + 1]
       THEN bitor(bitor(bitor(bitor(flush, Shl(15, SUIT_OFFSET)),
                              Shl(1, Ace + SUIT_OFFSET)),
                        Shl(585, 0)),
                  Shl(1, Ace * 3))
       ELSE LET low_rank_offset == Rank_into_usize(high_rank) - 4
            IN bitor(bitor(flush, Shl(31, low_rank_offset + SUIT_OFFSET)),
                     Shl(4681, low_rank_offset * 3))

from_straight(high_rank) ==
    IF high_rank = ALL_RANKS[Five + 1]
    THEN bitor(bitor(EMPTY, Shl(585, 0)), Shl(1, Ace * 3))
    ELSE LET low_rank_offset == Rank_into_usize(high_rank) - 4
         IN bitor(EMPTY, Shl(4681, low_rank_offset * 3))

\* contains_rank testing the counter's top bit only (mask 0b100)
contains_rank_top_bit(self, rank) ==
    BitAndHand(Shl(4, Rank_into_usize(rank) * 3), self) # EMPTY

\* contains_rank with the mask shifted by the rank index, not three times it
contains_rank_unscaled(self, rank) ==
    BitAndHand(Shl(7, Rank_into_usize(rank)), self) # EMPTY

contains_rank(self, rank) ==
    BitAndHand(Shl(7, Rank_into_usize(rank) * 3), self) # EMPTY

count_rank(self, rank) ==
    BitAndHand(Shl(7, Rank_into_usize(rank) * 3), self).lo \div (2 ^ (Rank_into_usize(rank) * 3))

\* add_rank setting the count's low bit with | in place of +
add_rank_or(self, rank) == bitor(self, Shl(1, Rank_into_usize(rank) * 3))

add_rank(self, rank) == AddLow(self, Shl(1, Rank_into_usize(rank) * 3))

take_rank(self, rank) == SubLow(self, Shl(1, Rank_into_usize(rank) * 3))

add_n_rank(self, rank, n) == AddLow(self, Shl(n, Rank_into_usize(rank) * 3))

is_flush(self) == BitAndHand(self, Shl(1, FLUSH_BIT)) # EMPTY

is_in_flush(self, rank) ==
    BitAndHand(self, Shl(1, Rank_into_usize(rank) + SUIT_OFFSET)) # EMPTY

from_rank_as_flush(rank) ==
    bitor(bitor(bitor(EMPTY, Shl(1, FLUSH_BIT)),
                Shl(1, Rank_into_usize(rank) + SUIT_OFFSET)),
          Shl(1, Rank_into_usize(rank) * 3))

from_n_rank(rank, n) == Shl(n, Rank_into_usize(rank) * 3)

\* Rank::ALL_RANKS.iter().rev()
RevRanks == [k \in 1..Len(ALL_RANKS) |-> ALL_RANKS[Len(ALL_RANKS) + 1 - k]]

RECURSIVE FoldOr(_, _, _)
FoldOr(acc, hands, k) ==
    IF k > Len(hands) THEN acc ELSE FoldOr(bitor(acc, hands[k]), hands, k + 1)

\* the element of flush_combos() at index tuple idx
flush_combos(idx) ==
    FoldOr(EMPTY, [j \in 1..Len(idx) |-> from_rank_as_flush(RevRanks[idx[j] + 1])], 1)

\* tests::test_flush_makers: the ranks
\* Rank::ALL_RANKS.iter().rev().cycle().skip(Ace - high_rank).take(5)
StraightRanks(high_rank) ==
    [j \in 1..5 |-> RevRanks[((Ace - high_rank + j - 1) % Len(ALL_RANKS)) + 1]]

\* tests::test_flush_makers: hand2 after `hand2 |= Hand::from_rank_as_flush(rank)`
\* for every rank
test_flush_makers(high_rank) ==
    FoldOr(EMPTY, [j \in 1..5 |-> from_rank_as_flush(StraightRanks(high_rank)[j])], 1)

\* tests::test_makers: hand2 after the loop over Rank::ALL_RANKS from rank k on
RECURSIVE MakeAgain(_, _, _)
MakeAgain(h, hand2, k) ==
    IF k > Len(ALL_RANKS) THEN hand2
    ELSE MakeAgain(h,
                   IF is_flush(h) /\ is_in_flush(h, ALL_RANKS[k])
                   THEN add_n_rank(bitor(hand2, from_rank_as_flush(ALL_RANKS[k])),
                                   ALL_RANKS[k], count_rank(h, ALL_RANKS[k]) - 1)
                   ELSE add_n_rank(hand2, ALL_RANKS[k], count_rank(h, ALL_RANKS[k])),
                   k + 1)

\* tests::test_makers: hand2 for one hand of get_hand_combos(5)
test_makers(h) == MakeAgain(h, EMPTY, 1)

\* tests::test_makers: the assert! on the flush markers of every rank
test_makers_asserts(h) ==
    \A rank \in RankValues :
       IF is_flush(h)
       THEN is_in_flush(h, rank) => count_rank(h, rank) > 0
       ELSE ~is_in_flush(h, rank)

(***************************************************************************)
(* hand.rs: the score table builder                                        *)
(***************************************************************************)
VARIABLES
    call,       \* create_score_table: the builder call in progress, 1..9; 10 = returned
    offset,     \* the offset parameter of the call in progress
    score,      \* the running score counter
    scores,     \* the HashMap<Hand, u64>
    hand,       \* the local `hand` of the loop body last executed
    key,        \* the key last handed to scores.entry
    ranks,      \* rank loop variables of the call in progress (discriminants)
    combo,      \* index tuple of the combinations iterator of the call in progress
    fn,         \* main.rs: the evaluator function called, "none" before the call
    ev_pc,      \* "idle", "loop", "returned" or "panicked"
    community,  \* the community argument
    pair,       \* the hero pair argument
    rem,        \* index tuple of the board iterator: the next board to process
    remainder,  \* the board completion (or sampled board) last processed
    compared,   \* the opponent holdings compared against the last board, in order
    my_score,   \* hero's best score on the last board
    win_count,
    lose_count,
    n_samples,  \* the n argument of eval_hand_monte_carlo
    sample,     \* the Vec returned by choose_multiple
    boards_done, \* iterations of the outer loop executed
    dec_kind,   \* card.rs: the type last decoded with try_from, "none" before
    dec_index,  \* the usize handed to try_from
    dec_result  \* what try_from did with it

bvars == <<call, offset, score, scores, hand, key, ranks, combo>>
evars == <<fn, ev_pc, community, pair, rem, remainder, compared, my_score,
           win_count, lose_count, n_samples, sample, boards_done>>
dvars == <<dec_kind, dec_index, dec_result>>
vars == <<call, offset, score, scores, hand, key, ranks, combo,
          fn, ev_pc, community, pair, rem, remainder, compared, my_score,
          win_count, lose_count, n_samples, sample, boards_done,
          dec_kind, dec_index, dec_result>>

\* the n argument of the three score_n_of_a_kind calls
NOfCall == [c \in {2, 6, 8} |-> CASE c = 2 -> 4 [] c = 6 -> 3 [] c = 8 -> 2]

\* loop variables on entry to call c
StartRanks(c) ==
    CASE c \in {1, 5} -> <<Ace>>
      [] c \in {2, 6, 8} -> <<Ace>>
      [] c = 3 -> <<Ace, Ace>>
      [] c = 7 -> <<Ace, Ace - 1, Ace>>
      [] OTHER -> <<>>

StartCombo(c) ==
    CASE c \in {2, 6, 8} -> FirstCombo(5 - NOfCall[c])
      [] c \in {4, 9} -> FirstCombo(5)
      [] OTHER -> <<>>

RankOf(k) == Rank_try_from(k).val

\* the locals of create_score_table and of the builder call in progress
Builder ==
    [call |-> call, offset |-> offset, score |-> score, scores |-> scores,
     hand |-> hand, key |-> key, ranks |-> ranks, combo |-> combo]

Is(b) ==
    /\ call = b.call
    /\ offset = b.offset
    /\ score = b.score
    /\ scores = b.scores
    /\ hand = b.hand
    /\ key = b.key
    /\ ranks = b.ranks
    /\ combo = b.combo

Becomes(b) ==
    /\ call' = b.call
    /\ offset' = b.offset
    /\ score' = b.score
    /\ scores' = b.scores
    /\ hand' = b.hand
    /\ key' = b.key
    /\ ranks' = b.ranks
    /\ combo' = b.combo

\* scores.insert(hand, score); score += 1; with no test for a vacant entry
InsertAlways(b, h) ==
    [b EXCEPT !.hand = h,
              !.key = h,
              !.scores = IF h \in DOMAIN @ THEN [@ EXCEPT ![h] = b.score]
                         ELSE @ @@ (h :> b.score),
              !.score = @ + 1]

\* if let Entry::Vacant(v) = scores.entry(hand) { v.insert(score); score += 1; }
Insert(b, h) ==
    [b EXCEPT !.hand = h,
              !.key = h,
              !.scores = IF h \in DOMAIN @ THEN @ ELSE @ @@ (h :> b.score),
              !.score = IF h \in DOMAIN b.scores THEN @ ELSE @ + 1]

\* return score; the caller passes it to the next builder
Return(b) ==
    [b EXCEPT !.call = @ + 1,
              !.offset = b.score,
              !.ranks = StartRanks(b.call + 1),
              !.combo = StartCombo(b.call + 1)]

\* one iteration of `for high_rank in Rank::ALL_RANKS[3..].iter().rev()`
score_straight_flush_iter(b) ==
    IF b.ranks[1] > Five
    THEN [Insert(b, from_straight_flush(RankOf(b.ranks[1]))) EXCEPT !.ranks = <<@[1] - 1>>]
    ELSE Return(Insert(b, from_straight_flush(RankOf(b.ranks[1]))))

\* the loops of score_n_of_a_kind move on to their next iteration
NextKickers(b) ==
    IF HasNextCombo(b.combo, DeckSize)
    THEN [b EXCEPT !.combo = NextCombo(@, DeckSize)]
    ELSE IF b.ranks[1] > 0
    THEN [b EXCEPT !.ranks = <<@[1] - 1>>, !.combo = FirstCombo(Len(@))]
    ELSE Return(b)

\* one iteration of `for kicker in Hand::get_hand_combos(5-n)` for one set_rank
score_n_of_a_kind_iter(b) ==
    IF contains_rank(get_hand_combos(b.combo), RankOf(b.ranks[1]))
    THEN NextKickers(b)
    ELSE NextKickers(Insert(b, bitor(from_n_rank(RankOf(b.ranks[1]), NOfCall[b.call]),
                                     get_hand_combos(b.combo))))

\* the loops of score_full_house move on to their next iteration
NextPairRank(b) ==
    IF b.ranks[2] > 0
    THEN [b EXCEPT !.ranks = <<@[1], @[2] - 1>>]
    ELSE IF b.ranks[1] > 0
    THEN [b EXCEPT !.ranks = <<@[1] - 1, Ace>>]
    ELSE Return(b)

\* one iteration of `for pair_rank in Rank::ALL_RANKS.iter().rev()` for one three_rank
score_full_house_iter(b) ==
    IF b.ranks[1] = b.ranks[2]
    THEN NextPairRank(b)
    ELSE NextPairRank(Insert(b, add_n_rank(from_n_rank(RankOf(b.ranks[1]), 3),
                                           RankOf(b.ranks[2]), 2)))

\* one iteration of `for hand in Hand::flush_combos()`
score_flush_iter(b) ==
    IF HasNextCombo(b.combo, Len(ALL_RANKS))
    THEN [Insert(b, flush_combos(b.combo)) EXCEPT !.combo = NextCombo(@, Len(ALL_RANKS))]
    ELSE Return(Insert(b, flush_combos(b.combo)))

\* one iteration of `for high_rank in Rank::ALL_RANKS[3..].iter().rev()`
score_straight_iter(b) ==
    IF b.ranks[1] > Five
    THEN [Insert(b, from_straight(RankOf(b.ranks[1]))) EXCEPT !.ranks = <<@[1] - 1>>]
    ELSE Return(Insert(b, from_straight(RankOf(b.ranks[1]))))

\* the two-pair key built at the top of the low_pair loop body
TwoPairBase(high_pair, low_pair) ==
    add_n_rank(from_n_rank(RankOf(high_pair), 2), RankOf(low_pair), 2)

\* the loops of score_two_pair move on to their next iteration
NextKicker(b) ==
    IF b.ranks[3] > 0
    THEN [b EXCEPT !.ranks = <<@[1], @[2], @[3] - 1>>]
    ELSE IF b.ranks[2] > 0
    THEN [b EXCEPT !.ranks = <<@[1], @[2] - 1, Ace>>]
    ELSE IF b.ranks[1] > 1
    THEN [b EXCEPT !.ranks = <<@[1] - 1, @[1] - 2, Ace>>]
    ELSE Return(b)

\* the body of `for kicker in Rank::ALL_RANKS.iter().rev()` on the working key
TryKicker(b, working, kicker) ==
    IF contains_rank(working, kicker)
    THEN [b EXCEPT !.hand = working]
    ELSE [Insert(b, add_rank(working, kicker))
             EXCEPT !.hand = take_rank(add_rank(working, kicker), kicker)]

\* one iteration of the kicker loop for one high_pair and low_pair; the first
\* one follows `let mut hand = Hand::from_n_rank(..).add_n_rank(..)`
score_two_pair_iter(b) ==
    NextKicker(TryKicker(b,
                         IF b.ranks[3] = Ace THEN TwoPairBase(b.ranks[1], b.ranks[2])
                         ELSE b.hand,
                         RankOf(b.ranks[3])))

\* one iteration of `for hand in Hand::get_hand_combos(5)`
score_high_card_iter(b) ==
    IF HasNextCombo(b.combo, DeckSize)
    THEN [Insert(b, get_hand_combos(b.combo)) EXCEPT !.combo = NextCombo(@, DeckSize)]
    ELSE Return(Insert(b, get_hand_combos(b.combo)))

\* create_score_table: the next iteration of the builder call in progress
create_score_table_iter(b) ==
    CASE b.call = 1 -> score_straight_flush_iter(b)
      [] b.call \in {2, 6, 8} -> score_n_of_a_kind_iter(b)
      [] b.call = 3 -> score_full_house_iter(b)
      [] b.call = 4 -> score_flush_iter(b)
      [] b.call = 5 -> score_straight_iter(b)
      [] b.call = 7 -> score_two_pair_iter(b)
      [] b.call = 9 -> score_high_card_iter(b)
      [] OTHER -> b

\* debug_assert!(self.count_rank(rank) < 4) of add_rank
add_rank_assert(self, rank) == count_rank(self, rank) < 4

\* debug_assert!(self.count_rank(rank) + n <= 4) of add_n_rank
add_n_rank_assert(self, rank, n) == count_rank(self, rank) + n <= 4

\* debug_assert!(n <= 4) of from_n_rank
from_n_rank_assert(n) == n <= 4

\* what the overflow assertions evaluate to in the next iteration of the
\* builder call in progress, each time one is reached
AssertsReached(b) ==
    CASE b.call \in {2, 6, 8} ->
            IF contains_rank(get_hand_combos(b.combo), RankOf(b.ranks[1])) THEN {}
            ELSE {from_n_rank_assert(NOfCall[b.call])}
      [] b.call = 3 ->
            IF b.ranks[1] = b.ranks[2] THEN {}
            ELSE {from_n_rank_assert(3),
                  add_n_rank_assert(from_n_rank(RankOf(b.ranks[1]), 3), RankOf(b.ranks[2]), 2)}
      [] b.call = 7 ->
            (IF b.ranks[3] = Ace
             THEN {from_n_rank_assert(2),
                   add_n_rank_assert(from_n_rank(RankOf(b.ranks[1]), 2), RankOf(b.ranks[2]), 2)}
             ELSE {})
            \cup
            UNION {IF contains_rank(working, RankOf(b.ranks[3])) THEN {}
                   ELSE {add_rank_assert(working, RankOf(b.ranks[3]))} :
                     working \in {IF b.ranks[3] = Ace
                                  THEN TwoPairBase(b.ranks[1], b.ranks[2])
                                  ELSE b.hand}}
      [] OTHER -> {}

\* the operands <<left, right>> of every | the next iteration of the builder
\* call in progress performs on rank counters
OrsReached(b) ==
    CASE b.call \in {1, 5} ->
            IF b.ranks[1] = Five THEN {<<Shl(585, 0), Shl(1, Ace * 3)>>} ELSE {}
      [] b.call \in {2, 6, 8} ->
            IF contains_rank(get_hand_combos(b.combo), RankOf(b.ranks[1])) THEN {}
            ELSE {<<from_n_rank(RankOf(b.ranks[1]), NOfCall[b.call]), get_hand_combos(b.combo)>>}
      [] b.call = 4 ->
            {<<FoldOr(EMPTY, [i \in 1..(j - 1) |-> from_rank_as_flush(RevRanks[b.combo[i] + 1])], 1),
               from_rank_as_flush(RevRanks[b.combo[j] + 1])>> : j \in 1..Len(b.combo)}
      [] OTHER -> {}

\* the locals on entry to create_score_table
EnterTable ==
    [call |-> 1, offset |-> 0, score |-> 0, scores |-> <<>>, hand |-> EMPTY,
     key |-> EMPTY, ranks |-> StartRanks(1), combo |-> StartCombo(1)]

NotCalled ==
    /\ fn = "none"
    /\ ev_pc = "idle"
    /\ community = <<>>
    /\ pair = <<>>
    /\ rem = <<>>
    /\ remainder = <<>>
    /\ compared = <<>>
    /\ my_score = 0
    /\ win_count = 0
    /\ lose_count = 0
    /\ n_samples = 0
    /\ sample = [all |-> FALSE, boards |-> <<>>]
    /\ boards_done = 0

\* the process before main's first statement
Start ==
    /\ Is(EnterTable)
    /\ NotCalled

Init ==
    /\ Start
    /\ dec_kind = "none"
    /\ dec_index = 0
    /\ dec_result = [tag |-> "None"]

score_straight_flush ==
    /\ call = 1
    /\ \E b \in {score_straight_flush_iter(Builder)} : Becomes(b)
    /\ UNCHANGED evars
    /\ UNCHANGED dvars

score_n_of_a_kind ==
    /\ call \in {2, 6, 8}
    /\ \E b \in {score_n_of_a_kind_iter(Builder)} : Becomes(b)
    /\ UNCHANGED evars
    /\ UNCHANGED dvars

score_full_house ==
    /\ call = 3
    /\ \E b \in {score_full_house_iter(Builder)} : Becomes(b)
    /\ UNCHANGED evars
    /\ UNCHANGED dvars

score_flush ==
    /\ call = 4
    /\ \E b \in {score_flush_iter(Builder)} : Becomes(b)
    /\ UNCHANGED evars
    /\ UNCHANGED dvars

score_straight ==
    /\ call = 5
    /\ \E b \in {score_straight_iter(Builder)} : Becomes(b)
    /\ UNCHANGED evars
    /\ UNCHANGED dvars

score_two_pair ==
    /\ call = 7
    /\ \E b \in {score_two_pair_iter(Builder)} : Becomes(b)
    /\ UNCHANGED evars
    /\ UNCHANGED dvars

score_high_card ==
    /\ call = 9
    /\ \E b \in {score_high_card_iter(Builder)} : Becomes(b)
    /\ UNCHANGED evars
    /\ UNCHANGED dvars

(***************************************************************************)
(* main.rs: the equity evaluators                                          *)
(***************************************************************************)
RECURSIVE Choose(_, _)
Choose(n, k) ==
    IF k = 0 THEN 1
    ELSE IF n < k THEN 0
    ELSE (Choose(n - 1, k - 1) * n) \div k

\* every index tuple .combinations(k) yields over the items lowest..(n - 1)
RECURSIVE CombosFrom(_, _, _)
CombosFrom(n, k, lowest) ==
    IF k = 0 THEN {<<>>}
    ELSE UNION {{<<a>> \o rest : rest \in CombosFrom(n, k - 1, a + 1)} :
                  a \in lowest..(n - k)}

AllCombos(n, k) == CombosFrom(n, k, 0)

CombosOfFive == [n \in 5..7 |-> AllCombos(n, 5)]

Pick(seq, idx) == [j \in 1..Len(idx) |-> seq[idx[j] + 1]]

SeqSet(seq) == {seq[k] : k \in 1..Len(seq)}

\* .max() where get_best_score takes .min()
MaxOf(S) == CHOOSE x \in S : \A y \in S : y <= x

MinOf(S) == CHOOSE x \in S : \A y \in S : x <= y

\* SCORES.get(&hand).unwrap() over every 5-combination, then .min().unwrap()
get_best_score(pr, comm) ==
    CHOOSE r \in
      {IF found = {} \/ -1 \in found
       THEN Panic("called Option::unwrap() on a None value")
       ELSE Ok(MinOf(found)) :
         found \in {{IF h \in DOMAIN scores THEN scores[h] ELSE -1 :
                       h \in {Hand_new(Pick(cards, idx)) :
                                cards \in {comm \o <<pr[1]>> \o <<pr[2]>>},
                                idx \in IF Len(comm) + 2 \in 5..7
                                        THEN CombosOfFive[Len(comm) + 2] ELSE {}}}}} : TRUE

\* deck.retain(|card| !community.contains(card) && *card != pair.0 && *card != pair.1)
deck_retain(comm, pr) ==
    SelectSeq(get_deck, LAMBDA card : card \notin SeqSet(comm) /\ card # pr[1] /\ card # pr[2])

RECURSIVE TupleRows(_, _)
TupleRows(deck, a) ==
    IF a >= Len(deck) THEN <<>>
    ELSE [b \in 1..(Len(deck) - a) |-> <<deck[a], deck[a + b]>>] \o TupleRows(deck, a + 1)

\* deck.iter().copied().tuple_combinations()
tuple_combinations(deck) == TupleRows(deck, 1)

\* the inner loop with `my_score <= ...` as the test for a win
EvilLoopTiesWin(deck, board, skip, score_now) ==
    CHOOSE r \in
      {IF \E t \in theirs : t[2].tag # "Ok"
       THEN [compared |-> kept, panicked |-> TRUE, wins |-> 0, losses |-> 0]
       ELSE [compared |-> kept, panicked |-> FALSE,
             wins |-> Cardinality({t \in theirs : score_now <= t[2].val}),
             losses |-> Cardinality({t \in theirs : ~(score_now <= t[2].val)})] :
         <<kept, theirs>> \in
            {<<kk, {<<k, get_best_score(kk[k], board)>> : k \in 1..Len(kk)}>> :
               kk \in {SelectSeq(tuple_combinations(deck),
                                 LAMBDA evil_pair : ~(evil_pair[1] \in SeqSet(skip)
                                                      \/ evil_pair[2] \in SeqSet(skip)))}}} : TRUE

\* the inner loop over the opponent holdings against one board:
\* [compared, panicked, wins, losses]
EvilLoop(deck, board, skip, score_now) ==
    CHOOSE r \in
      {IF \E t \in theirs : t[2].tag # "Ok"
       THEN [compared |-> kept, panicked |-> TRUE, wins |-> 0, losses |-> 0]
       ELSE [compared |-> kept, panicked |-> FALSE,
             wins |-> Cardinality({t \in theirs : score_now < t[2].val}),
             losses |-> Cardinality({t \in theirs : ~(score_now < t[2].val)})] :
         <<kept, theirs>> \in
            {<<kk, {<<k, get_best_score(kk[k], board)>> : k \in 1..Len(kk)}>> :
               kk \in {SelectSeq(tuple_combinations(deck),
                                 LAMBDA evil_pair : ~(evil_pair[1] \in SeqSet(skip)
                                                      \/ evil_pair[2] \in SeqSet(skip)))}}} : TRUE

\* one pass of the body of an outer loop: hero's score on the board, then the
\* opponents
BoardStep(deck, board, skip, last) ==
    \E mine \in {get_best_score(pair, board)} :
       /\ remainder' = skip
       /\ boards_done' = boards_done + 1
       /\ IF mine.tag # "Ok"
          THEN /\ ev_pc' = "panicked"
               /\ UNCHANGED <<my_score, compared, win_count, lose_count>>
          ELSE \E inner \in {EvilLoop(deck, board, skip, mine.val)} :
                  /\ my_score' = mine.val
                  /\ compared' = inner.compared
                  /\ IF inner.panicked
                     THEN /\ ev_pc' = "panicked"
                          /\ UNCHANGED <<win_count, lose_count>>
                     ELSE /\ win_count' = win_count + inner.wins
                          /\ lose_count' = lose_count + inner.losses
                          /\ ev_pc' = IF last THEN "returned" ELSE "loop"

\* the arguments the evaluators are called with

EvalInputs ==
    { [community |-> <<Card_new("Ace", "Hearts"), Card_new("Six", "Hearts"), Card_new("Four", "Spades")>>,
       pair |-> <<Card_new("Two", "Hearts"), Card_new("Three", "Hearts")>>],
      [community |-> <<Card_new("Ace", "Diamonds"), Card_new("Six", "Diamonds"), Card_new("Four", "Spades"),
                       Card_new("Five", "Clubs")>>,
       pair |-> <<Card_new("Ace", "Hearts"), Card_new("Six", "Hearts")>>],
      [community |-> <<Card_new("Ace", "Hearts"), Card_new("Ace", "Diamonds"), Card_new("Four", "Spades"),
                       Card_new("Four", "Hearts"), Card_new("Two", "Clubs")>>,
       pair |-> <<Card_new("Ace", "Spades"), Card_new("Three", "Diamonds")>>],
      [community |-> <<Card_new("Two", "Clubs"), Card_new("Three", "Clubs"), Card_new("Four", "Clubs"),
                       Card_new("Five", "Clubs"), Card_new("Six", "Clubs")>>,
       pair |-> <<Card_new("Ace", "Spades"), Card_new("Ace", "Diamonds")>>] }

\* get_best_score called on its own
call_get_best_score ==
    /\ call = 10
    /\ ev_pc = "idle"
    /\ \E input \in EvalInputs :
          LET mine == get_best_score(input.pair, input.community)
          IN /\ fn' = "get_best_score"
             /\ community' = input.community
             /\ pair' = input.pair
             /\ IF mine.tag = "Ok"
                THEN my_score' = mine.val /\ ev_pc' = "returned"
                ELSE UNCHANGED my_score /\ ev_pc' = "panicked"
    /\ UNCHANGED <<rem, remainder, compared, win_count, lose_count, n_samples,
                   sample, boards_done>>
    /\ UNCHANGED bvars
    /\ UNCHANGED dvars

\* eval_with_community up to the first iteration of the remainder loop
eval_with_community_call ==
    /\ call = 10
    /\ ev_pc = "idle"
    /\ \E input \in EvalInputs :
          /\ community' = input.community
          /\ pair' = input.pair
          /\ rem' = FirstCombo(5 - Len(input.community))
    /\ fn' = "eval_with_community"
    /\ ev_pc' = "loop"
    /\ win_count' = 0
    /\ lose_count' = 0
    /\ UNCHANGED <<remainder, compared, my_score, n_samples, sample, boards_done>>
    /\ UNCHANGED bvars
    /\ UNCHANGED dvars

\* one iteration of `for remainder in deck.iter().copied().combinations(5-n)`;
\* the last one returns (win_count, lose_count)
eval_with_community ==
    /\ fn = "eval_with_community"
    /\ ev_pc = "loop"
    /\ \E deck \in {deck_retain(community, pair)} :
         \E this \in {Pick(deck, rem)} :
           \E board \in {community \o this} :
             /\ BoardStep(deck, board, this, ~HasNextCombo(rem, Len(deck)))
             /\ rem' = IF HasNextCombo(rem, Len(deck)) THEN NextCombo(rem, Len(deck)) ELSE rem
    /\ UNCHANGED <<fn, community, pair, n_samples, sample>>
    /\ UNCHANGED bvars
    /\ UNCHANGED dvars

\* position (from 1) of an index tuple in the order .combinations(k) yields over m items
RECURSIVE ComboPosFrom(_, _, _, _)
ComboPosFrom(idx, m, j, lowest) ==
    IF j > Len(idx) THEN 1
    ELSE LET skipped == {v \in lowest..(idx[j] - 1) : TRUE}
             RECURSIVE Before(_)
             Before(V) == IF V = {} THEN 0
                          ELSE LET v == CHOOSE x \in V : TRUE
                               IN Choose(m - 1 - v, Len(idx) - j) + Before(V \ {v})
         IN Before(skipped) + ComboPosFrom(idx, m, j + 1, idx[j] + 1)

ComboPos(idx, m) == ComboPosFrom(idx, m, 1, 0)

\* the boards the random number generator is let to leave in the reservoir
\* when fewer boards are asked for than there are
SamplePool(m) ==
    {FirstCombo(5), NextCombo(FirstCombo(5), m), [j \in 1..5 |-> m - 5 + j - 1]}

\* the sample counts eval_hand_monte_carlo is called with, for m cards left
SampleCounts(m) == {0, 1, 2, Choose(m, 5), Choose(m, 5) + 1}

\* the outer loop of eval_hand_monte_carlo is followed for this many boards
MaxBoards == 2

\* .combinations(5).choose_multiple(&mut rng, n): the reservoir is the first n
\* boards, each later board replacing a random slot or none; with no more
\* than n boards it is all of them, in order
choose_multiple(m, n) ==
    IF n >= Choose(m, 5)
    THEN {[all |-> TRUE, boards |-> <<>>]}
    ELSE {[all |-> FALSE, boards |-> b] :
            b \in {c \in [1..n -> SamplePool(m)] :
                     /\ \A j, k \in 1..n : j # k => c[j] # c[k]
                     /\ \A j \in 1..n : ComboPos(c[j], m) = j \/ ComboPos(c[j], m) > n}}

SampleLen(smp, m) == IF smp.all THEN Choose(m, 5) ELSE Len(smp.boards)

MonteCarloPairs ==
    { <<Card_new("Ace", "Hearts"), Card_new("Six", "Hearts")>> }

\* eval_hand_monte_carlo up to the first iteration of the loop over the sample
eval_hand_monte_carlo_call ==
    /\ call = 10
    /\ ev_pc = "idle"
    /\ \E pr \in MonteCarloPairs :
          LET m == Len(deck_retain(<<>>, pr))
          IN \E n \in SampleCounts(m) :
                \E smp \in choose_multiple(m, n) :
                   /\ pair' = pr
                   /\ n_samples' = n
                   /\ sample' = smp
                   /\ rem' = FirstCombo(5)
                   /\ ev_pc' = IF SampleLen(smp, m) = 0 THEN "returned" ELSE "loop"
    /\ fn' = "eval_hand_monte_carlo"
    /\ win_count' = 0
    /\ lose_count' = 0
    /\ UNCHANGED <<community, remainder, compared, my_score, boards_done>>
    /\ UNCHANGED bvars
    /\ UNCHANGED dvars

\* one iteration of `for community in ...choose_multiple(&mut rng, n)`; the
\* last one returns (win_count, lose_count)
eval_hand_monte_carlo ==
    /\ fn = "eval_hand_monte_carlo"
    /\ ev_pc = "loop"
    /\ boards_done < MaxBoards
    /\ \E deck \in {deck_retain(<<>>, pair)} :
         \E board \in {Pick(deck, IF sample.all THEN rem ELSE sample.boards[boards_done + 1])} :
           /\ BoardStep(deck, board, board,
                        boards_done + 1 = SampleLen(sample, Len(deck)))
           /\ rem' = IF sample.all /\ HasNextCombo(rem, Len(deck))
                     THEN NextCombo(rem, Len(deck)) ELSE rem
    /\ UNCHANGED <<fn, community, pair, n_samples, sample>>
    /\ UNCHANGED bvars
    /\ UNCHANGED dvars

(***************************************************************************)
(* card.rs: the index decoders, applied to an index chosen at the start    *)
(***************************************************************************)
\* the largest index handed to a decoder
MaxIndex == 40

Decoders == {"Rank", "Suit", "Card"}

InitDecode ==
    /\ Start
    /\ dec_kind \in Decoders
    /\ dec_index \in 0..MaxIndex
    /\ dec_result = [tag |-> "None"]

try_from ==
    /\ dec_result.tag = "None"
    /\ dec_result' = CASE dec_kind = "Rank" -> Rank_try_from(dec_index)
                       [] dec_kind = "Suit" -> Suit_try_from(dec_index)
                       [] dec_kind = "Card" -> Card_try_from(dec_index)
    /\ UNCHANGED <<dec_kind, dec_index>>
    /\ UNCHANGED bvars
    /\ UNCHANGED evars

\* no builder call runs its loops more often than there are 5-card hands
IterationsAtMost == 9 * Choose(DeckSize, 5)

\* n iterations on from b, or as many as there are until the return
RECURSIVE Run(_, _)
Run(b, n) ==
    CHOOSE r \in {IF x.call = 10 \/ n = 0 THEN x
                  ELSE IF n = 1 THEN create_score_table_iter(x)
                  ELSE Run(Run(x, n \div 2), n - (n \div 2)) : x \in {b}} : TRUE

\* what create_score_table leaves: SCORES after LazyLock::new has run it
create_score_table == Run(EnterTable, IterationsAtMost)

\* SCORES has been read for the first time: the table is there
InitEval ==
    /\ Is(create_score_table)
    /\ NotCalled
    /\ dec_kind = "none"
    /\ dec_index = 0
    /\ dec_result = [tag |-> "None"]

\* create_score_table, run when SCORES is first read
NextTable ==
    \/ score_straight_flush
    \/ score_n_of_a_kind
    \/ score_full_house
    \/ score_flush
    \/ score_straight
    \/ score_two_pair
    \/ score_high_card

\* the evaluators, called once the table is there
NextEval ==
    \/ call_get_best_score
    \/ eval_with_community_call
    \/ eval_with_community
    \/ eval_hand_monte_carlo_call
    \/ eval_hand_monte_carlo

Next == NextTable \/ NextEval

Spec == Init /\ [][Next]_vars

SpecTable == Init /\ [][NextTable]_vars

SpecEval == InitEval /\ [][NextEval]_vars

SpecDecode == InitDecode /\ [][try_from]_vars

(***************************************************************************)
(* Reference notions the properties are stated with: the strength of five  *)
(* cards under the standard poker ranking, and one chosen hand for every   *)
(* class of equally strong hands.                                          *)
(***************************************************************************)
SetMax(S) == CHOOSE x \in S : \A y \in S : y <= x
SetMin(S) == CHOOSE x \in S : \A y \in S : x <= y

\* the rank discriminants of five cards, lowest first
SortedRanks(cards) ==
    [j \in 1..5 |->
        SetMin({Rank_into_usize(cards[i].rank) : i \in
                  {i \in 1..5 :
                     Cardinality({h \in 1..5 : Rank_into_usize(cards[h].rank)
                                                 <= Rank_into_usize(cards[i].rank)}) >= j}})]

SingleSuited(cards) == \A j \in 1..Len(cards) : cards[j].suit = cards[1].suit

RankCounts(cards) ==
    [r \in 0..(NumRanks - 1) |->
        Cardinality({j \in 1..Len(cards) : Rank_into_usize(cards[j].rank) = r})]

SameStrength(A, B) ==
    RankCounts(A) = RankCounts(B) /\ SingleSuited(A) = SingleSuited(B)

Wheel == {0, 1, 2, 3, Ace}

CountIn(rk, r) == Cardinality({j \in 1..5 : rk[j] = r})

\* categories are numbered as the builder calls are: 1 straight flush, 2 four
\* of a kind, 3 full house, 4 flush, 5 straight, 6 three of a kind, 7 two
\* pair, 8 pair, 9 high card
CategoryOf(rk, flush) ==
    LET present == SeqSet(rk)
        top == SetMax({CountIn(rk, r) : r \in present})
        straight == /\ Cardinality(present) = 5
                    /\ (rk[5] - rk[1] = 4 \/ present = Wheel)
    IN IF straight /\ flush THEN 1
       ELSE IF top = 4 THEN 2
       ELSE IF top = 3 /\ Cardinality(present) = 2 THEN 3
       ELSE IF flush THEN 4
       ELSE IF straight THEN 5
       ELSE IF top = 3 THEN 6
       ELSE IF top = 2 /\ Cardinality(present) = 3 THEN 7
       ELSE IF top = 2 THEN 8
       ELSE 9

RECURSIVE TieSum(_, _)
TieSum(rk, todo) ==
    IF todo = {} THEN 0
    ELSE LET r == SetMax(todo)
             lower == {q \in SeqSet(rk) :
                         CountIn(rk, q) * NumRanks + q < CountIn(rk, r) * NumRanks + r}
         IN r * (NumRanks ^ Cardinality(lower)) + TieSum(rk, todo \ {r})

\* the tie-break within a category, larger is stronger: the high card of a
\* straight (Five for the wheel); otherwise the ranks read as digits, most
\* frequent then highest first
TieBreakOf(rk, flush) ==
    IF CategoryOf(rk, flush) \in {1, 5}
    THEN IF SeqSet(rk) = Wheel THEN Five ELSE rk[5]
    ELSE TieSum(rk, SeqSet(rk))

\* <<category, tie-break>> of five cards
Strength(cards) ==
    CHOOSE st \in {<<CategoryOf(rk, SingleSuited(cards)), TieBreakOf(rk, SingleSuited(cards))>> :
                     rk \in {SortedRanks(cards)}} : TRUE

Category(cards) == Strength(cards)[1]

\* A strictly stronger than B, each given as <<category, tie-break>>
Stronger(a, b) == a[1] < b[1] \/ (a[1] = b[1] /\ a[2] > b[2])

\* the chosen hand of a class: the ranks in order, a rank's cards in Hearts,
\* Diamonds, Clubs, Spades in turn; five ranks not of one suit have the
\* lowest in Diamonds
CanonOf(rk, flush) ==
    [j \in 1..5 |->
        Card_new(ALL_RANKS[rk[j] + 1],
                 IF Cardinality(SeqSet(rk)) = 5
                 THEN IF j = 1 /\ ~flush THEN "Diamonds" ELSE "Hearts"
                 ELSE ALL_SUITS[Cardinality({i \in 1..(j - 1) : rk[i] = rk[j]}) + 1])]

Canon(cards) ==
    CHOOSE B \in {CanonOf(rk, SingleSuited(cards)) : rk \in {SortedRanks(cards)}} : TRUE

\* every choice of five ranks in order, a rank at most four times
RECURSIVE RanksFrom(_, _)
RanksFrom(k, lowest) ==
    IF k = 0 THEN {<<>>}
    ELSE UNION {{<<a>> \o rest : rest \in RanksFrom(k - 1, a)} :
                  a \in lowest..(NumRanks - 1)}

RankChoices == {rk \in RanksFrom(5, 0) : rk[1] # rk[5]}

ClassHands ==
    {CanonOf(rk, FALSE) : rk \in RankChoices}
        \cup {CanonOf(rk, TRUE) : rk \in {c \in RankChoices : Cardinality(SeqSet(c)) = 5}}

\* the number of classes of each category, for a deck of R ranks: at 13
\* ranks 10, 156, 156, 1277, 10, 858, 858, 2860, 1277
ClassCounts(R) ==
    <<R - 3,
      R * (R - 1),
      R * (R - 1),
      Choose(R, 5) - (R - 3),
      R - 3,
      R * Choose(R - 1, 2),
      Choose(R, 2) * (R - 2),
      R * Choose(R - 1, 3),
      Choose(R, 5) - (R - 3)>>

RECURSIVE SeqSum(_, _)
SeqSum(seq, k) == IF k > Len(seq) THEN 0 ELSE seq[k] + SeqSum(seq, k + 1)

Lookup(h) == IF h \in DOMAIN scores THEN scores[h] ELSE -1

TableBuilt == call = 10 /\ ev_pc = "idle"

\* the cards the combinations iterator of score_high_card stands at
CurrentCards == Pick(RevDeck, combo)

\* the cards at the iterator encode as the chosen hand of their class does,
\* and are exactly as strong
LinkedToClass(A) ==
    \E B \in {Canon(A)} :
       /\ B \in ClassHands
       /\ SameStrength(A, B)
       /\ Strength(A) = Strength(B)
       /\ Hand_new(A) = Hand_new(B)

ClassesAreHands ==
    \A B \in ClassHands : Cardinality(SeqSet(B)) = 5 /\ SeqSet(B) \subseteq SeqSet(get_deck)

StraightCards(high, suit) ==
    [j \in 1..5 |->
        Card_new(ALL_RANKS[(IF high = Five /\ j = 1 THEN Ace ELSE high - 5 + j) + 1],
                 IF j = 1 THEN suit ELSE "Hearts")]

\* the key and the strength of every class
KeyStrength == {<<Hand_new(B), Strength(B)>> : B \in ClassHands}

ScoredInOrder ==
    \A T \in {{<<p[2], scores[p[1]]>> :
                 p \in {q \in KeyStrength : q[1] \in DOMAIN scores}}} :
       \A x \in T : \A y \in T : Stronger(x[1], y[1]) => x[2] < y[2]

ClassesDiffer == \A B1, B2 \in ClassHands : SameStrength(B1, B2) => B1 = B2

ClassKeysDiffer == Cardinality({Hand_new(B) : B \in ClassHands}) = Cardinality(ClassHands)

KeyCategory == {<<Hand_new(B), Category(B)>> : B \in ClassHands}

RoyalFlush == StraightCards(Ace, "Hearts")
WheelStraight == StraightCards(Five, "Spades")
SixHighStraight == StraightCards(Five + 1, "Spades")

(***************************************************************************)
(* C1: in the finished table a strictly stronger 5-card hand has the       *)
(* strictly smaller score.  Every 5-card subset of the deck (each is met   *)
(* by the iterator of score_high_card) has the key and the strength of the *)
(* chosen hand of its class; whenever a builder call has returned, and in  *)
(* the finished table, of two scored classes the stronger has the smaller  *)
(* score; the Ace-high straight flush scores 0, below every four of a      *)
(* kind, and the Five-high straight scores above the Six-high straight and *)
(* below every three of a kind.                                            *)
(***************************************************************************)
C1_StrongerScoresLower ==
    /\ [](/\ ClassesAreHands
          /\ call = 9 => LinkedToClass(CurrentCards)
          /\ TableBuilt =>
                /\ \A B \in ClassHands : Lookup(Hand_new(B)) >= 0
                /\ Lookup(Hand_new(RoyalFlush)) = 0
                /\ \A B \in ClassHands :
                      Category(B) = 2 => Lookup(Hand_new(RoyalFlush)) < Lookup(Hand_new(B))
                /\ Lookup(Hand_new(WheelStraight)) > Lookup(Hand_new(SixHighStraight))
                /\ \A B \in ClassHands :
                      Category(B) = 6 => Lookup(Hand_new(WheelStraight)) < Lookup(Hand_new(B)))
    /\ [][call' # call => ScoredInOrder']_vars

C1_Witness ==
    /\ call > 5
    /\ Lookup(Hand_new(RoyalFlush)) = 0
    /\ Lookup(Hand_new(WheelStraight)) = Lookup(Hand_new(SixHighStraight)) + 1

(***************************************************************************)
(* C2: two 5-card subsets of the deck have the same key exactly when they  *)
(* have the same rank counts and are both or neither of one suit: every    *)
(* subset has the key of the chosen hand of its class, and no two classes  *)
(* share a key.                                                            *)
(***************************************************************************)
C2_KeyIffSameStrength ==
    /\ ClassesAreHands
    /\ ClassesDiffer
    /\ ClassKeysDiffer
    /\ call = 9 => LinkedToClass(CurrentCards)

C2_Witness ==
    /\ call = 9
    /\ SingleSuited(CurrentCards)
    /\ CurrentCards[1].suit = "Clubs"
    /\ Hand_new(CurrentCards) = Hand_new(Canon(CurrentCards))

(***************************************************************************)
(* C3: at every step of create_score_table the counter is the number of    *)
(* entries and the stored scores are exactly 0..counter-1; a key already   *)
(* there keeps its score and leaves the counter alone; on return the       *)
(* counter is the number of classes (7462 for 13 ranks).                   *)
(***************************************************************************)
C3_DenseFirstWins ==
    /\ SeqSum(ClassCounts(13), 1) = 7462
    /\ [](/\ score = Cardinality(DOMAIN scores)
          /\ {scores[h] : h \in DOMAIN scores} = 0..(score - 1)
          /\ call = 10 => score = SeqSum(ClassCounts(NumRanks), 1))
    /\ [][/\ \A h \in DOMAIN scores : h \in DOMAIN scores' /\ scores'[h] = scores[h]
          /\ key' \in DOMAIN scores => scores' = scores /\ score' = score
          /\ key' \notin DOMAIN scores =>
                /\ score' = score + 1
                /\ DOMAIN scores' = DOMAIN scores \cup {key'}
                /\ scores'[key'] = score]_vars

C3_Witness ==
    /\ score = Cardinality(DOMAIN scores)
    /\ score > offset
    /\ key \in DOMAIN scores
    /\ scores[key] < offset

(***************************************************************************)
(* C4: the nine builder calls insert, in order, as many new keys as their  *)
(* category has classes (10, 156, 156, 1277, 10, 858, 858, 2860, 1277 for  *)
(* 13 ranks), and every key a call inserts is the key of a hand of that    *)
(* call's category.                                                        *)
(***************************************************************************)
C4_CountsPerCategory ==
    /\ ClassCounts(13) = <<10, 156, 156, 1277, 10, 858, 858, 2860, 1277>>
    /\ [][/\ call' # call => score' - offset = ClassCounts(NumRanks)[call]
          /\ scores' # scores => <<key', call>> \in KeyCategory]_vars

C4_Witness ==
    /\ call = 9
    /\ combo = FirstCombo(5)
    /\ offset = SeqSum(ClassCounts(NumRanks), 1) - ClassCounts(NumRanks)[9]
    /\ Cardinality(DOMAIN scores) = offset

\* Hand::new of every 5 cards of the deck is a key of the table
EveryHandHasKey ==
    \A idx \in AllCombos(DeckSize, 5) : Hand_new(Pick(get_deck, idx)) \in DOMAIN scores

\* the cards of a set, in the order of the deck
InDeckOrder(S) == SelectSeq(get_deck, LAMBDA card : card \in S)

\* the least score of a 5-card subset of a set of cards (-1 for a key not in the table)
BestOf(S) ==
    SetMin({Lookup(Hand_new(InDeckOrder(X))) : X \in {Y \in SUBSET S : Cardinality(Y) = 5}})

\* the cards neither on the known board nor held by hero
Unseen == SeqSet(get_deck) \ (SeqSet(community) \cup SeqSet(pair))

TwoOf(S) == {{a, b} : a \in S, b \in S} \ {{a} : a \in S}

IndexIn(deck, cards) ==
    [j \in 1..Len(cards) |-> (CHOOSE k \in 1..Len(deck) : deck[k] = cards[j]) - 1]

ComparedSets == {{compared[k][1], compared[k][2]} : k \in 1..Len(compared)}

\* the wins among the holdings just compared, by the reference scores
WinsOn(board, hero, holdings) ==
    CHOOSE w \in {Cardinality({k \in 1..Len(holdings) :
                      mine < BestOf(board \cup {holdings[k][1], holdings[k][2]})}) :
                    mine \in {BestOf(board \cup hero)}} : TRUE

(***************************************************************************)
(* C5: whenever hole cards and community are 5 to 7 cards, get_best_score  *)
(* returns the least table score of a 5-card subset of their union, and no *)
(* lookup misses (no evaluator panics): the key of every 5-card subset of  *)
(* the deck is in the table create_score_table leaves, which the           *)
(* evaluators never change.                                                *)
(***************************************************************************)
C5_BestScoreIsMinimum ==
    /\ fn = "none" => EveryHandHasKey
    /\ scores = create_score_table.scores
    /\ ev_pc # "panicked"
    /\ (fn = "get_best_score" /\ ev_pc = "returned") =>
          /\ Cardinality(SeqSet(community) \cup SeqSet(pair)) \in 5..7
          /\ my_score = BestOf(SeqSet(community) \cup SeqSet(pair))
    /\ (fn \in {"eval_with_community", "eval_hand_monte_carlo"} /\ boards_done > 0) =>
          /\ Cardinality(SeqSet(community) \cup SeqSet(remainder) \cup SeqSet(pair)) = 7
          /\ my_score = BestOf(SeqSet(community) \cup SeqSet(remainder) \cup SeqSet(pair))

C5_Witness ==
    /\ fn = "get_best_score"
    /\ ev_pc = "returned"
    /\ Len(community) = 4
    /\ my_score = BestOf(SeqSet(community) \cup SeqSet(pair))
    /\ my_score > 0

(***************************************************************************)
(* C6: eval_with_community with 3, 4 or 5 community cards takes the        *)
(* completions of the board from the unseen cards one after another, each  *)
(* once; against each it compares every 2-subset of the unseen cards       *)
(* outside the completion exactly once and no other holding; a comparison  *)
(* is a win iff hero's best score on the board is strictly less than the   *)
(* opponent's and a lose otherwise, so at the return win_count +           *)
(* lose_count is the number of completions times the number of holdings.   *)
(***************************************************************************)
C6_OneComparisonPerPair ==
    /\ [](fn = "eval_with_community" =>
            /\ Len(community) \in 3..5
            /\ boards_done > 0 =>
                  /\ Len(remainder) = 5 - Len(community)
                  /\ Cardinality(SeqSet(remainder)) = 5 - Len(community)
                  /\ SeqSet(remainder) \subseteq Unseen
                  /\ ComboPos(IndexIn(InDeckOrder(Unseen), remainder), Cardinality(Unseen))
                        = boards_done
                  /\ Cardinality(ComparedSets) = Len(compared)
                  /\ ComparedSets = TwoOf(Unseen \ SeqSet(remainder))
                  /\ Len(compared) = Choose(DeckSize - 7, 2)
                  /\ win_count + lose_count = boards_done * Choose(DeckSize - 7, 2)
            /\ ev_pc = "returned" =>
                  /\ boards_done = Choose(DeckSize - 2 - Len(community), 5 - Len(community))
                  /\ win_count + lose_count
                        = Choose(DeckSize - 2 - Len(community), 5 - Len(community))
                             * Choose(DeckSize - 7, 2))
    /\ [][(fn' = "eval_with_community" /\ boards_done' = boards_done + 1) =>
             \E wins \in {WinsOn(SeqSet(community') \cup SeqSet(remainder'),
                                 SeqSet(pair'), compared')} :
                /\ win_count' = win_count + wins
                /\ lose_count' = lose_count + Len(compared') - wins]_vars

C6_Witness ==
    /\ fn = "eval_with_community"
    /\ ev_pc = "returned"
    /\ Len(community) = 4
    /\ win_count > 0
    /\ lose_count > 0
    /\ win_count + lose_count = Choose(DeckSize - 6, 1) * Choose(DeckSize - 7, 2)

(***************************************************************************)
(* C8: eval_hand_monte_carlo called for more samples than there are        *)
(* 5-card boards in the remaining deck detects it: it does not go on to    *)
(* tally the fewer boards it was given, nor return their tally.            *)
(***************************************************************************)
C8_ExhaustionDetected ==
    (fn = "eval_hand_monte_carlo" /\ n_samples > Choose(DeckSize - 2, 5)) =>
        ev_pc \notin {"loop", "returned"}

(***************************************************************************)
(* C9: decoding a legal index and converting back gives the index (a card  *)
(* index is rank index * 4 + suit index, the card's place in the deck);    *)
(* decoding any other index returns an error value.                        *)
(***************************************************************************)
C9_DecodeRoundTrip ==
    dec_result.tag # "None" =>
        CASE dec_kind = "Rank" ->
                IF dec_index \in 0..(NumRanks - 1)
                THEN dec_result.tag = "Ok" /\ Rank_into_usize(dec_result.val) = dec_index
                ELSE dec_result.tag = "Err"
          [] dec_kind = "Suit" ->
                IF dec_index \in 0..3
                THEN dec_result.tag = "Ok" /\ Suit_into_usize(dec_result.val) = dec_index
                ELSE dec_result.tag = "Err"
          [] dec_kind = "Card" ->
                IF dec_index \in 0..(DeckSize - 1)
                THEN /\ dec_result.tag = "Ok"
                     /\ Card_into_usize(dec_result.val) = dec_index
                     /\ dec_result.val = get_deck[dec_index + 1]
                     /\ Card_into_usize(dec_result.val)
                           = Rank_into_usize(dec_result.val.rank) * 4
                               + Suit_into_usize(dec_result.val.suit)
                ELSE dec_result.tag = "Err"

(***************************************************************************)
(* C10: on the key of any 5-card subset of the deck, and on every key the  *)
(* builder hands to the table, add_rank then take_rank of a rank held      *)
(* fewer than four times gives back the key; and                           *)
(* in score_two_pair the working key is the two-pair key of the high and   *)
(* low pair whenever the next kicker is about to be tried.                 *)
(***************************************************************************)
C10_AddThenTakeRestores ==
    /\ \A h \in {key} \cup (IF call = 9 THEN {get_hand_combos(combo)} ELSE {}) :
          \A rank \in RankValues :
             count_rank(h, rank) < 4 => take_rank(add_rank(h, rank), rank) = h
    /\ (call = 7 /\ ranks[3] # Ace) => hand = TwoPairBase(ranks[1], ranks[2])

C10_Witness ==
    /\ call = 7
    /\ ranks[3] < Ace
    /\ hand = TwoPairBase(ranks[1], ranks[2])
    /\ key = add_rank(hand, RankOf(ranks[3] + 1))
    /\ key \in DOMAIN scores

\* the counts of all ranks, and nothing else, fill the low limb
CounterSum(h) == SeqSum([k \in 1..Len(ALL_RANKS) |-> count_rank(h, ALL_RANKS[k])], 1)

CountersInRange(h) ==
    /\ \A rank \in RankValues : count_rank(h, rank) \in 0..4
    /\ h.lo = SeqSum([k \in 1..Len(ALL_RANKS) |->
                        count_rank(h, ALL_RANKS[k]) * (2 ^ ((k - 1) * 3))], 1)

DisjointRanks(a, b) ==
    \A rank \in RankValues : count_rank(a, rank) = 0 \/ count_rank(b, rank) = 0

\* the keys Hand::new and the builder make in the next iteration
KeysMade ==
    {key, hand, create_score_table_iter(Builder).key, create_score_table_iter(Builder).hand}
       \cup (IF call \in {2, 6, 8, 9} THEN {get_hand_combos(combo)} ELSE {})

(***************************************************************************)
(* C11: every rank counter of every key create_score_table makes, and of   *)
(* every key Hand::new makes from distinct cards of the deck (the kickers, *)
(* the 5-card hands, the whole deck), is in 0..4; the assertions of        *)
(* add_rank, add_n_rank and from_n_rank hold each time the builder reaches *)
(* them; and each | of the builder joins operands with no rank counted in  *)
(* both, so the counters of the result are the sums of theirs.             *)
(***************************************************************************)
C11_CountersNeverOverflow ==
    /\ CountersInRange(Hand_new(get_deck))
    /\ \A h \in KeysMade : CountersInRange(h) /\ CounterSum(h) <= 5
    /\ key # EMPTY => CounterSum(key) = 5
    /\ \A holds \in AssertsReached(Builder) : holds
    /\ \A or \in OrsReached(Builder) :
          /\ DisjointRanks(or[1], or[2])
          /\ \A rank \in RankValues :
                count_rank(bitor(or[1], or[2]), rank)
                   = count_rank(or[1], rank) + count_rank(or[2], rank)

C11_Witness ==
    /\ call = 7
    /\ ranks[3] # Ace
    /\ ~contains_rank(hand, RankOf(ranks[3]))
    /\ AssertsReached(Builder) = {TRUE}
    /\ count_rank(key, RankOf(ranks[1])) = 2
    /\ CounterSum(key) = 5

\* five cards of the ranks of the straight up to a high rank (discriminant),
\* the j-th of suit suits[j]
Suited(high, suits) == [j \in 1..5 |-> Card_new(StraightRanks(high)[j], suits[j])]

(***************************************************************************)
(* C12: for every high rank Five..Ace (met by score_straight_flush and     *)
(* score_straight), from_straight_flush is the OR of from_rank_as_flush    *)
(* over the five ranks of the straight (5, 4, 3, 2, A for the wheel) and   *)
(* is Hand::new of those ranks in one suit, and from_straight is Hand::new *)
(* of them in any mix of suits; and every key Hand::new makes of a 5-card  *)
(* subset of the deck (met by score_high_card) is made again from          *)
(* from_rank_as_flush and add_n_rank, has flush markers only on ranks it   *)
(* holds, and has none unless the flush bit is set.                        *)
(***************************************************************************)
C12_MakersAgreeWithNew ==
    /\ call \in {1, 5} =>
          /\ ranks[1] \in Five..Ace
          /\ SeqSet(StraightRanks(ranks[1]))
                = IF ranks[1] = Five
                  THEN {RankOf(k) : k \in 0..Five} \cup {RankOf(Ace)}
                  ELSE {RankOf(k) : k \in (ranks[1] - 4)..ranks[1]}
          /\ from_straight_flush(RankOf(ranks[1])) = test_flush_makers(ranks[1])
          /\ \A suits \in [1..5 -> SuitValues] :
                Hand_new(Suited(ranks[1], suits))
                   = IF SingleSuited(Suited(ranks[1], suits))
                     THEN from_straight_flush(RankOf(ranks[1]))
                     ELSE from_straight(RankOf(ranks[1]))
    /\ call = 9 =>
          \A h \in {Hand_new(CurrentCards)} :
             /\ test_makers_asserts(h)
             /\ test_makers(h) = h
             /\ is_flush(h) <=> SingleSuited(CurrentCards)
             /\ \A rank \in RankValues :
                   is_in_flush(h, rank) => is_flush(h) /\ count_rank(h, rank) > 0

C12_Witness ==
    /\ call = 1
    /\ ranks[1] = Five
    /\ is_in_flush(from_straight_flush(RankOf(ranks[1])), RankOf(Ace))
    /\ from_straight_flush(RankOf(ranks[1])) = Hand_new(Suited(ranks[1], [j \in 1..5 |-> "Hearts"]))

====
